---- MODULE Spec2Model ----
(***************************************************************************)
(* Model of scripts/data_processing.py: the batch pipeline that loads two  *)
(* export windows of wearable telemetry, normalises the date column,       *)
(* reduces minute/second level tables to daily rows, left-joins them onto  *)
(* the activity table and cleans the unified table.                        *)
(*                                                                         *)
(* A table (pandas DataFrame) is a record [cols, rows]: cols is the        *)
(* sequence of column names, rows the sequence of rows, each a function    *)
(* from column name to cell.  A numeric cell is an exact rational          *)
(* [n, d] with d > 0 in lowest terms; NaN is the cell with d = 0.  A date  *)
(* cell is an integer: a raw timestamp before normalisation, a day number  *)
(* after it, NaT when it could not be parsed.                              *)
(***************************************************************************)
EXTENDS Integers, Sequences, FiniteSets, TLC

\* ------------------------------------------------------------------------
\* Numeric cells
\* ------------------------------------------------------------------------

\* a float cell is the fraction n/d: d > 0 for a finite number, and d = 0 for
\* the three values float arithmetic adds, nan (n = 0), inf (n = 1) and
\* -inf (n = -1)
NaN == [n |-> 0, d |-> 0]

Abs(i) == IF i < 0 THEN 0 - i ELSE i

RECURSIVE GCD(_, _)
GCD(a, b) == IF b = 0 THEN a ELSE GCD(b, a % b)

\* the fraction num/den in lowest terms with a denominator that is not
\* negative: num/0 is inf or -inf by the sign of num, and 0/0 is nan
Rat(num, den) ==
    IF num = 0 /\ den = 0 THEN NaN
    ELSE LET s == IF den < 0 THEN 0 - 1 ELSE 1
             g == GCD(Abs(num), Abs(den))
         IN  [n |-> (s * num) \div g, d |-> (s * den) \div g]

R(i) == [n |-> i, d |-> 1]

\* isna / notna: inf and -inf are not null
IsNa(x) == x.d = 0 /\ x.n = 0
NotNa(x) == ~IsNa(x)

\* comparisons are False as soon as one side is NaN
Lt(x, y) ==
    /\ NotNa(x)
    /\ NotNa(y)
    /\ IF x.d = 0 /\ y.d = 0 THEN x.n < y.n ELSE x.n * y.d < y.n * x.d
Le(x, y) ==
    /\ NotNa(x)
    /\ NotNa(y)
    /\ IF x.d = 0 /\ y.d = 0 THEN x.n <= y.n ELSE x.n * y.d <= y.n * x.d
Gt(x, y) == Lt(y, x)
Ge(x, y) == Le(y, x)

\* float arithmetic: NaN propagates, inf - inf, inf * 0 and inf / inf are NaN
Add(x, y) ==
    IF IsNa(x) \/ IsNa(y) THEN NaN
    ELSE IF x.d = 0 /\ y.d = 0 THEN (IF x.n = y.n THEN x ELSE NaN)
    ELSE Rat(x.n * y.d + y.n * x.d, x.d * y.d)
Sub(x, y) == Add(x, [n |-> 0 - y.n, d |-> y.d])
Mul(x, y) == IF IsNa(x) \/ IsNa(y) THEN NaN ELSE Rat(x.n * y.n, x.d * y.d)
\* x / y on numpy values: a zero divisor raises nothing, x / 0 is inf or
\* -inf by the sign of x, and 0 / 0 is nan
Div(x, y) == IF IsNa(x) \/ IsNa(y) THEN NaN ELSE Mul(x, Rat(y.d, y.n))

\* Series.round(2): nearest multiple of 1/100, ties to the even multiple
Round2(x) ==
    IF x.d = 0 THEN x
    ELSE LET q == (x.n * 100) \div x.d
             r == (x.n * 100) % x.d
             up == (2 * r > x.d) \/ (2 * r = x.d /\ q % 2 = 1)
         IN  Rat(IF up THEN q + 1 ELSE q, 100)

RECURSIVE SumSeq(_)
SumSeq(s) == IF s = <<>> THEN R(0) ELSE Add(Head(s), SumSeq(Tail(s)))

\* the values of s that are not NaN, in order
NonNull(s) == SelectSeq(s, NotNa)

\* Series.mean(): mean of the non-null values, NaN when there is none
Mean(s) ==
    LET v == NonNull(s)
    IN  IF v = <<>> THEN NaN ELSE Div(SumSeq(v), R(Len(v)))

\* s with its value at position i removed
RemoveAt(s, i) == SubSeq(s, 1, i - 1) \o SubSeq(s, i + 1, Len(s))

RECURSIVE SortValues(_)
SortValues(s) ==
    IF s = <<>> THEN <<>>
    ELSE LET i == CHOOSE k \in 1..Len(s) : \A j \in 1..Len(s) : Le(s[k], s[j])
         IN  <<s[i]>> \o SortValues(RemoveAt(s, i))

\* Series.quantile(k/4), linear interpolation over the non-null values
Quantile(s, k) ==
    LET v == SortValues(NonNull(s))
        m == Len(v)
    IN  IF m = 0 THEN NaN
        ELSE LET lo == ((m - 1) * k) \div 4
                 fr == ((m - 1) * k) % 4
             IN  IF fr = 0 THEN v[lo + 1]
                 ELSE Add(v[lo + 1], Mul(Rat(fr, 4), Sub(v[lo + 2], v[lo + 1])))

\* ------------------------------------------------------------------------
\* Date cells
\* ------------------------------------------------------------------------

\* an unparseable raw value, and the NaT / NaN it is coerced to
NaT == -1

\* resolution of a raw timestamp: ticks (minutes, seconds) per day
TicksPerDay == 2

\* C16 mutant: the parsed timestamp is kept, without the strftime
DateOnly_KeepTime(raw) == IF raw < 0 THEN NaT ELSE raw

\* pd.to_datetime(errors="coerce") followed by strftime("%Y-%m-%d"):
\* the day of the timestamp, NaT for a value that does not parse
DateOnly(raw) == IF raw < 0 THEN NaT ELSE raw \div TicksPerDay

\* ------------------------------------------------------------------------
\* Tables
\* ------------------------------------------------------------------------

Range(s) == {s[i] : i \in 1..Len(s)}

Table(cols, rows) == [cols |-> cols, rows |-> rows]

\* the cell a column that is absent from a row is filled with
FillValue(c) == IF c = "Date" THEN NaT ELSE NaN

\* the column as a sequence of cells
Column(t, c) == [i \in 1..Len(t.rows) |-> t.rows[i][c]]

\* df[c] = f(row): the column is replaced in place, or appended when new
SetColumn(t, c, f(_)) ==
    Table(IF c \in Range(t.cols) THEN t.cols ELSE Append(t.cols, c),
          [i \in 1..Len(t.rows) |->
              [k \in DOMAIN t.rows[i] \cup {c} |->
                  IF k = c THEN f(t.rows[i]) ELSE t.rows[i][k]]])

\* df.drop(columns=S, errors="ignore")
DropColumns(t, S) ==
    LET keep(c) == c \notin S
    IN  Table(SelectSeq(t.cols, keep),
              [i \in 1..Len(t.rows) |->
                  [k \in DOMAIN t.rows[i] \ S |-> t.rows[i][k]]])

\* the rows that satisfy P, in order
FilterRows(t, P(_)) == Table(t.cols, SelectSeq(t.rows, P))

\* pd.concat([a, b], ignore_index=True): the union of the columns, a's first;
\* a cell of a column the table does not have is null
Concat(a, b) ==
    LET new(c) == c \notin Range(a.cols)
        cols == a.cols \o SelectSeq(b.cols, new)
        widen(r) == [k \in Range(cols) |-> IF k \in DOMAIN r THEN r[k] ELSE FillValue(k)]
    IN  Table(cols, [i \in 1..Len(a.rows) |-> widen(a.rows[i])]
                    \o [i \in 1..Len(b.rows) |-> widen(b.rows[i])])

RECURSIVE FlattenSeq(_)
FlattenSeq(ss) == IF ss = <<>> THEN <<>> ELSE Head(ss) \o FlattenSeq(Tail(ss))

\* left.merge(right, on=keys, how="left"): every left row, once per right row
\* with the same key (null keys match null keys), or once with nulls when
\* there is none
MergeLeft(left, right, keys) ==
    LET extra(c) == c \notin keys
        rcols == SelectSeq(right.cols, extra)
        join(l, r) == [k \in DOMAIN l \cup Range(rcols) |->
                          IF k \in DOMAIN l THEN l[k] ELSE r[k]]
        nulls == [k \in Range(rcols) |-> FillValue(k)]
        matches(l) ==
            LET same(r) == \A k \in keys : r[k] = l[k]
                m == SelectSeq(right.rows, same)
            IN  IF m = <<>> THEN <<join(l, nulls)>>
                ELSE [j \in 1..Len(m) |-> join(l, m[j])]
    IN  Table(left.cols \o rcols,
              FlattenSeq([i \in 1..Len(left.rows) |-> matches(left.rows[i])]))

\* ------------------------------------------------------------------------
\* Source Discoverer & Loader
\* ------------------------------------------------------------------------

FOLDER1 == "Fitabase Data 3.12.16-4.11.16"
FOLDER2 == "Fitabase Data 4.12.16-5.12.16"

\* a file is [folder, stem, table]: its name is stem + ".csv"
KEEP_FILES == {"dailyActivity_merged", "sleepDay_merged", "heartrate_seconds_merged",
               "weightLogInfo_merged", "minuteSleep_merged"}

REMOVE_FILES == {"dailySteps_merged", "dailyCalories_merged", "dailyIntensities_merged",
                 "minuteIntensitiesWide_merged", "minuteStepsWide_merged",
                 "minuteCaloriesWide_merged", "minuteIntensitiesNarrow_merged",
                 "minuteStepsNarrow_merged", "minuteCaloriesNarrow_merged",
                 "hourlySteps_merged", "hourlyCalories_merged",
                 "hourlyIntensities_merged", "minuteMETsNarrow_merged"}

\* C15 mutant: every file that is not on the deny-list is kept
files_to_keep_NotDenied(file_list) ==
    LET keep(f) == f.stem \notin REMOVE_FILES IN SelectSeq(file_list, keep)

files_to_keep(file_list) == LET keep(f) == f.stem \in KEEP_FILES IN SelectSeq(file_list, keep)
files_to_remove(file_list) == LET rm(f) == f.stem \in REMOVE_FILES IN SelectSeq(file_list, rm)

\* sub in s: s has sub as a substring
Contains(sub, s) ==
    \E i \in 1..(Len(s) - Len(sub) + 1) : SubSeq(s, i, i + Len(sub) - 1) = sub

\* "3_12" if "3.12.16-4.11.16" in folder_name else "4_12"
time_period(folder_name) ==
    IF Contains("3.12.16-4.11.16", folder_name) THEN "3_12" ELSE "4_12"

\* f"{file.stem}_{time_period}"
Key(stem, period) == <<stem, period>>

\* load_data: one table per kept file, a later file of the same key wins
load_data(file_list) ==
    LET kept == files_to_keep(file_list)
        key(f) == Key(f.stem, time_period(f.folder))
        last(k) == CHOOSE i \in 1..Len(kept) :
                      key(kept[i]) = k /\ \A j \in (i + 1)..Len(kept) : key(kept[j]) # k
    IN  [k \in {key(kept[i]) : i \in 1..Len(kept)} |-> kept[last(k)].table]

\* dfs[k] = t
Put(dfs, k, t) == [x \in DOMAIN dfs \cup {k} |-> IF x = k THEN t ELSE dfs[x]]
\* dfs.pop(k, None)
Pop(dfs, k) == [x \in DOMAIN dfs \ {k} |-> dfs[x]]

\* ------------------------------------------------------------------------
\* Date Normalizer
\* ------------------------------------------------------------------------

\* one table: its second column becomes "Date" and holds date-only values;
\* a table with fewer than two columns is left as it is
StandardizeTable(t) ==
    IF Len(t.cols) > 1
    THEN LET date_col == t.cols[2]
         IN  Table([i \in 1..Len(t.cols) |-> IF i = 2 THEN "Date" ELSE t.cols[i]],
                   [i \in 1..Len(t.rows) |->
                       [k \in (DOMAIN t.rows[i] \ {date_col}) \cup {"Date"} |->
                           IF k = "Date" THEN DateOnly(t.rows[i][date_col])
                           ELSE t.rows[i][k]]])
    ELSE t

standardize_date_format(dfs) == [k \in DOMAIN dfs |-> StandardizeTable(dfs[k])]

\* ------------------------------------------------------------------------
\* Granularity Reducer
\* ------------------------------------------------------------------------

\* the group keys of groupby(["Id", date_col]): the distinct (Id, date) pairs
\* of the rows whose key cells are both non-null
KeySet(t, date_col) ==
    {<<t.rows[i]["Id"], t.rows[i][date_col]>> :
        i \in {j \in 1..Len(t.rows) : NotNa(t.rows[j]["Id"]) /\ t.rows[j][date_col] # NaT}}

KeyLe(a, b) == Lt(a[1], b[1]) \/ (a[1] = b[1] /\ a[2] <= b[2])

\* the group keys in groupby's (sorted) order
RECURSIVE SortKeys(_)
SortKeys(S) ==
    IF S = {} THEN <<>>
    ELSE LET m == CHOOSE a \in S : \A b \in S : KeyLe(a, b)
         IN  <<m>> \o SortKeys(S \ {m})

GroupKeys(t, date_col) == SortKeys(KeySet(t, date_col))

\* the rows of one group
Group(t, date_col, key) ==
    LET mine(r) == r["Id"] = key[1] /\ r[date_col] = key[2]
    IN  FilterRows(t, mine)

\* groupby(["Id", date_col], as_index=False).size()
GroupSize(t, date_col, name) ==
    LET ks == GroupKeys(t, date_col)
    IN  Table(<<"Id", date_col, name>>,
              [i \in 1..Len(ks) |->
                  [k \in {"Id", date_col, name} |->
                      IF k = "Id" THEN ks[i][1]
                      ELSE IF k = date_col THEN ks[i][2]
                      ELSE R(Len(Group(t, date_col, ks[i]).rows))]])

\* groupby(["Id", date_col], as_index=False).agg(out=(src, "mean"), ...);
\* agg is the sequence of <<out, src>> pairs
GroupMean(t, date_col, agg) ==
    LET ks == GroupKeys(t, date_col)
        outs == [j \in 1..Len(agg) |-> agg[j][1]]
        src(o) == agg[CHOOSE j \in 1..Len(agg) : agg[j][1] = o][2]
    IN  Table(<<"Id", date_col>> \o outs,
              [i \in 1..Len(ks) |->
                  [k \in {"Id", date_col} \cup Range(outs) |->
                      IF k = "Id" THEN ks[i][1]
                      ELSE IF k = date_col THEN ks[i][2]
                      ELSE Mean(Column(Group(t, date_col, ks[i]), src(k)))]])

\* the sleep-stage code that counts as asleep
AsleepValue == 1

\* C10 mutant: the summary is returned without the fillna(0)
FillNa0_Skipped(t) == t

\* DataFrame.fillna(0); the key cells of a grouped table are never null
FillNa0(t) ==
    Table(t.cols,
          [i \in 1..Len(t.rows) |->
              [k \in DOMAIN t.rows[i] |->
                  IF k # "Date" /\ IsNa(t.rows[i][k]) THEN R(0) ELSE t.rows[i][k]]])

\* what the reduction of one table raises: df.columns[1] on a table with
\* fewer than two columns is an IndexError; grouping by a column that is not
\* there (any more, once the columns of dropped are gone), or reading one of
\* the columns of needed that is not there, is a KeyError
TableException(t, dropped, needed) ==
    IF Len(t.cols) < 2 THEN "IndexError"
    ELSE IF ~({"Id", t.cols[2]} \subseteq Range(t.cols) \ dropped) THEN "KeyError"
    ELSE IF ~(needed \subseteq Range(t.cols)) THEN "KeyError"
    ELSE "none"

\* the columns each reducer drops before it groups, and the columns it reads
SleepDropped == {"logId"}
SleepNeeded == {"value"}
HeartrateDropped == {}
HeartrateNeeded == {"Value"}
WeightDropped == {"Fat", "IsManualReport", "LogId"}
WeightNeeded == {"WeightKg", "WeightPounds", "BMI"}

\* the daily sleep table made from the minute-level table of window 3_12
MinuteSleepToDaily(t) ==
    LET date_col == t.cols[2]
        df_minute_sleep == DropColumns(t, {"logId"})
        sleep_summary == GroupSize(df_minute_sleep, date_col, "TotalTimeInBed")
        asleep(r) == r["value"] = R(AsleepValue)
        asleep_summary == GroupSize(FilterRows(df_minute_sleep, asleep), date_col,
                                    "TotalMinutesAsleep")
        merged == FillNa0(MergeLeft(sleep_summary, asleep_summary, {"Id", date_col}))
    IN  Table(<<"Id", date_col, "TotalMinutesAsleep", "TotalTimeInBed">>, merged.rows)

\* each reducer works on a copy of the table it reads and writes the
\* dictionary after it has aggregated: the value of a reducer is the
\* dictionary it leaves, which is the one it found when its first table raises
convert_minute_sleep_to_daily(dfs) ==
    LET src == Key("minuteSleep_merged", "3_12")
        d1 == IF src \in DOMAIN dfs
              THEN Put(dfs, Key("sleepDay_merged", "3_12"), MinuteSleepToDaily(dfs[src]))
              ELSE dfs
    IN  IF src \in DOMAIN dfs /\ TableException(dfs[src], SleepDropped, SleepNeeded) # "none"
        THEN dfs
        ELSE Pop(Pop(d1, src), Key("minuteSleep_merged", "4_12"))

Windows == <<"3_12", "4_12">>

RECURSIVE HeartrateLoop(_, _)
HeartrateLoop(dfs, ws) ==
    IF ws = <<>> THEN dfs
    ELSE LET old_key == Key("heartrate_seconds_merged", Head(ws))
             new_key == Key("heartrateDay_merged", Head(ws))
         IN  IF old_key \in DOMAIN dfs
             THEN LET t == dfs[old_key]
                      daily == GroupMean(t, t.cols[2], << <<"AvgHeartRate", "Value">> >>)
                  IN  IF TableException(t, HeartrateDropped, HeartrateNeeded) # "none"
                      THEN dfs
                      ELSE HeartrateLoop(Pop(Put(dfs, new_key, daily), old_key), Tail(ws))
             ELSE HeartrateLoop(dfs, Tail(ws))

convert_second_heartrate_to_daily(dfs) == HeartrateLoop(dfs, Windows)

RECURSIVE WeightLoop(_, _)
WeightLoop(dfs, ws) ==
    IF ws = <<>> THEN dfs
    ELSE LET key == Key("weightLogInfo_merged", Head(ws))
         IN  IF key \in DOMAIN dfs
             THEN LET date_col == dfs[key].cols[2]
                      t == DropColumns(dfs[key], WeightDropped)
                      daily == GroupMean(t, date_col,
                                         << <<"AvgWeightKg", "WeightKg">>,
                                            <<"AvgWeightPounds", "WeightPounds">>,
                                            <<"AvgBMI", "BMI">> >>)
                  IN  IF TableException(dfs[key], WeightDropped, WeightNeeded) # "none"
                      THEN dfs
                      ELSE WeightLoop(Put(dfs, key, daily), Tail(ws))
             ELSE WeightLoop(dfs, Tail(ws))

convert_minute_weight_to_daily(dfs) == WeightLoop(dfs, Windows)

\* the tables each reducer reads, in the order it reads them, each with the
\* columns it drops and the columns it reads
SleepInputs ==
    << <<Key("minuteSleep_merged", "3_12"), SleepDropped, SleepNeeded>> >>
HeartrateInputs ==
    << <<Key("heartrate_seconds_merged", "3_12"), HeartrateDropped, HeartrateNeeded>>,
       <<Key("heartrate_seconds_merged", "4_12"), HeartrateDropped, HeartrateNeeded>> >>
WeightInputs ==
    << <<Key("weightLogInfo_merged", "3_12"), WeightDropped, WeightNeeded>>,
       <<Key("weightLogInfo_merged", "4_12"), WeightDropped, WeightNeeded>> >>
ReducerInputs == SleepInputs \o HeartrateInputs \o WeightInputs

\* the first exception the reducers raise on dfs, "none" when they raise none
RECURSIVE FirstException(_, _)
FirstException(dfs, ins) ==
    IF ins = <<>> THEN "none"
    ELSE LET job == Head(ins)
             e == IF job[1] \in DOMAIN dfs
                  THEN TableException(dfs[job[1]], job[2], job[3]) ELSE "none"
         IN  IF e # "none" THEN e ELSE FirstException(dfs, Tail(ins))

\* the dictionary convert_time_data_to_daily leaves: the three reducers in
\* turn, up to the one that raises
convert_time_data_to_daily(dfs) ==
    LET d1 == convert_minute_sleep_to_daily(dfs)
        d2 == convert_second_heartrate_to_daily(d1)
    IN  IF FirstException(dfs, SleepInputs) # "none" THEN d1
        ELSE IF FirstException(d1, HeartrateInputs) # "none" THEN d2
        ELSE convert_minute_weight_to_daily(d2)

\* where handle_data_processing stands after its call of
\* convert_time_data_to_daily: nothing catches what a reducer raises
ConvertOutcome(dfs) ==
    LET e == FirstException(dfs, ReducerInputs)
    IN  IF e = "none" THEN "daily" ELSE e

\* ------------------------------------------------------------------------
\* Merger
\* ------------------------------------------------------------------------

\* pd.concat of the two windows' tables of one kind
ConcatWindows(dfs, stem) == Concat(dfs[Key(stem, "3_12")], dfs[Key(stem, "4_12")])

merge_activity_data(dfs) == ConcatWindows(dfs, "dailyActivity_merged")
merge_sleep_data(dfs) == DropColumns(ConcatWindows(dfs, "sleepDay_merged"), {"TotalSleepRecords"})
merge_weight_data(dfs) == ConcatWindows(dfs, "weightLogInfo_merged")
merge_heart_rate_data(dfs) == ConcatWindows(dfs, "heartrateDay_merged")

\* the keys merge_all_data looks up; a missing one raises KeyError
MergeStems == {"dailyActivity_merged", "sleepDay_merged", "weightLogInfo_merged",
               "heartrateDay_merged"}
MergeKeys == {Key(s, w) : s \in MergeStems, w \in Range(Windows)}

merge_all_data(dfs) ==
    MergeLeft(MergeLeft(MergeLeft(merge_activity_data(dfs), merge_sleep_data(dfs),
                                  {"Id", "Date"}),
                        merge_weight_data(dfs), {"Id", "Date"}),
              merge_heart_rate_data(dfs), {"Id", "Date"})

\* C12 mutant: the KeyError is caught and the run goes on to return a table
MergeOutcome_Caught(dfs) == IF MergeKeys \subseteq DOMAIN dfs THEN "merged" ELSE "cleaned"

\* where handle_data_processing stands after its call of merge_all_data: a
\* dfs[key] of a key that is not there raises KeyError, which nothing catches
MergeOutcome(dfs) == IF MergeKeys \subseteq DOMAIN dfs THEN "merged" ELSE "KeyError"

\* ------------------------------------------------------------------------
\* Cleaner (clean_data and its stages)
\* ------------------------------------------------------------------------

Flag(b) == IF b THEN R(1) ELSE R(0)

\* df.drop_duplicates(): a row equal in every column to an earlier row goes
handle_duplicates(df) ==
    LET n == Len(df.rows)
        firsts == {i \in 1..n : \A j \in 1..(i - 1) : df.rows[j] # df.rows[i]}
        F[i \in 0..n] ==
            IF i = 0 THEN <<>>
            ELSE IF i \in firsts THEN Append(F[i - 1], df.rows[i]) ELSE F[i - 1]
    IN  Table(df.cols, F[n])

\* C14 mutant: the fill value is the mean of the column over every user
UserMean_Global(t, c, id) == Mean(Column(t, c))

\* df.groupby("Id")[c].transform("mean") for one row: the mean of the non-null
\* cells of c over the rows of the same Id (a null Id belongs to no group)
UserMean(t, c, id) ==
    IF IsNa(id) THEN NaN
    ELSE LET mine(r) == r["Id"] = id
         IN  Mean(Column(FilterRows(t, mine), c))

\* df[c] = df[c].fillna(per-user mean of c)
FillWithUserMean(t, c) ==
    LET f(r) == IF IsNa(r[c]) THEN UserMean(t, c, r["Id"]) ELSE r[c]
    IN  SetColumn(t, c, f)

\* df["Calories"].sum() / df["TotalSteps"].sum(): the sums skip the nulls; a
\* zero divisor gives inf or nan on numeric columns and no exception
avg_calories_per_step(df) ==
    Div(SumSeq(NonNull(Column(df, "Calories"))), SumSeq(NonNull(Column(df, "TotalSteps"))))

\* the division of avg_calories_per_step may raise ZeroDivisionError: on a
\* frame that never had a row (header-only files) read_csv leaves the columns
\* untyped and both sums are the integer 0; the frame's column types are not
\* part of a table here, so such a frame has both outcomes
MayRaiseZeroDivision(df) == df.rows = <<>>

\* the frame handle_missing_values leaves, whether it returns it or raises at
\* its division
handle_missing_values(df) ==
    LET essential(r) == NotNa(r["TotalSteps"]) /\ NotNa(r["Calories"])
        d1 == FilterRows(df, essential)
        sleepflag(r) == Flag(NotNa(r["TotalMinutesAsleep"]))
        d2 == SetColumn(d1, "HasSleepData", sleepflag)
        d3 == FillWithUserMean(d2, "AvgWeightKg")
        d4 == FillWithUserMean(d3, "AvgBMI")
        d5 == FillWithUserMean(d4, "AvgHeartRate")
        ratio == avg_calories_per_step(d5)
    \* ratio is only used by the Calories fillna of line 362, which is not
    \* assigned back: it changes nothing
    IN  d5

\* C13 mutant: HasBMIData is derived from AvgWeightKg
flag_weight_tracking_SameColumn(df) ==
    LET w(r) == Flag(NotNa(r["AvgWeightKg"]))
    IN  SetColumn(SetColumn(df, "HasWeightData", w), "HasBMIData", w)

flag_weight_tracking(df) ==
    LET w(r) == Flag(NotNa(r["AvgWeightKg"]))
        b(r) == Flag(NotNa(r["AvgBMI"]))
    IN  SetColumn(SetColumn(df, "HasWeightData", w), "HasBMIData", b)

outlier_columns == <<"TotalSteps", "Calories", "VeryActiveMinutes", "TotalDistance">>

\* lower and upper Tukey bound of column col over the rows of t
LowerBound(t, col) ==
    LET Q1 == Quantile(Column(t, col), 1)
        Q3 == Quantile(Column(t, col), 3)
    IN  Sub(Q1, Mul(Rat(3, 2), Sub(Q3, Q1)))

UpperBound(t, col) ==
    LET Q1 == Quantile(Column(t, col), 1)
        Q3 == Quantile(Column(t, col), 3)
    IN  Add(Q3, Mul(Rat(3, 2), Sub(Q3, Q1)))

\* one pass of the loop of handle_outliers: the bounds are those of the rows
\* of t, and a row stays when its cell is null or within them
TukeyFilter(t, col) ==
    LET lo == LowerBound(t, col)
        hi == UpperBound(t, col)
        keep(r) == IsNa(r[col]) \/ (Ge(r[col], lo) /\ Le(r[col], hi))
    IN  FilterRows(t, keep)

\* the loop: each column filters the rows the columns before it have left
RECURSIVE TukeyLoop(_, _)
TukeyLoop(t, cs) ==
    IF cs = <<>> THEN t ELSE TukeyLoop(TukeyFilter(t, Head(cs)), Tail(cs))

HeartRateMin == 30
HeartRateMax == 250

\* C6 mutant: the filtered frame is not assigned back
HeartRateFilter_NotAssigned(t) == t

\* the heart-rate filter of handle_outliers: a row stays when its
\* AvgHeartRate is null or within [30, 250]
HeartRateFilter(t) ==
    LET keep(r) == IsNa(r["AvgHeartRate"])
                   \/ (Ge(r["AvgHeartRate"], R(HeartRateMin))
                       /\ Le(r["AvgHeartRate"], R(HeartRateMax)))
    IN  FilterRows(t, keep)

handle_outliers(df) ==
    LET d1 == TukeyLoop(df, outlier_columns)
        d2 == HeartRateFilter(d1)
        hr(r) == Flag(NotNa(r["AvgHeartRate"]))
    IN  SetColumn(d2, "HasHeartRateData", hr)

\* C17 mutant: the guard is den != 0
GuardedRatio_NonZero(num, den) == IF NotNa(den) /\ den.n # 0 THEN Div(num, den) ELSE NaN

\* np.where(den > 0, num / den, nan)
GuardedRatio(num, den) == IF Gt(den, R(0)) THEN Div(num, den) ELSE NaN

add_derived_metrics(df) ==
    LET se(r) == GuardedRatio(r["TotalMinutesAsleep"], r["TotalTimeInBed"])
        va(r) == GuardedRatio(r["VeryActiveDistance"], r["TotalDistance"])
    IN  SetColumn(SetColumn(df, "SleepEfficiency", se), "VeryActiveRatio", va)

drop_unnecessary_columns(df) ==
    DropColumns(df, {"SedentaryActiveDistance", "AvgWeightPounds"})

\* df.select_dtypes(include=["number"]): every column but the date string
NumericCols(t) == Range(t.cols) \ {"Date"}

\* C9 mutant: the test is x < -1, so a cell in [-1, 0) is kept
ScrubCell_BelowMinusOne(x) == IF Lt(x, R(0 - 1)) THEN NaN ELSE x

\* x -> nan if x < 0 else x, on one cell
ScrubCell(x) == IF Lt(x, R(0)) THEN NaN ELSE x

handle_negative_values(df) ==
    Table(df.cols,
          [i \in 1..Len(df.rows) |->
              [k \in DOMAIN df.rows[i] |->
                  IF k \in NumericCols(df) THEN ScrubCell(df.rows[i][k])
                  ELSE df.rows[i][k]]])

exclude_cols == {"Id", "HasSleepData", "HasWeightData", "HasBMIData", "HasHeartRateData"}

\* the continuous columns: numeric, neither identifier nor flag
DecimalCols(t) == NumericCols(t) \ exclude_cols

round_decimal_values(df) ==
    Table(df.cols,
          [i \in 1..Len(df.rows) |->
              [k \in DOMAIN df.rows[i] |->
                  IF k \in DecimalCols(df) THEN Round2(df.rows[i][k])
                  ELSE df.rows[i][k]]])

clean_data(df) ==
    round_decimal_values(handle_negative_values(drop_unnecessary_columns(
        add_derived_metrics(handle_outliers(flag_weight_tracking(
            handle_missing_values(handle_duplicates(df))))))))

\* ------------------------------------------------------------------------
\* Analysis
\* ------------------------------------------------------------------------

\* a comparison with a null step count is False: the last branch is taken
categorize_activity(steps) ==
    IF Ge(steps, R(10000)) THEN "Highly Active"
    ELSE IF Ge(steps, R(5000)) THEN "Moderately Active"
    ELSE "Low Activity"

\* df["ActivityLevel"] = df["TotalSteps"].apply(categorize_activity), on the
\* caller's frame
segment_users_by_activity(df) ==
    LET level(r) == categorize_activity(r["TotalSteps"])
    IN  SetColumn(df, "ActivityLevel", level)

\* ------------------------------------------------------------------------
\* Input domains
\* ------------------------------------------------------------------------

\* the raw timestamp of tick t of day d
Ts(d, t) == d * TicksPerDay + t

\* the rows of a bounded table are drawn from a sequence D of candidate rows,
\* in D's order (the stages do not depend on the order of distinct rows)
NonDecreasing(k, n) == {f \in [1..k -> 1..n] : \A i \in 1..(k - 1) : f[i] <= f[i + 1]}
TablesOver(cols, D, max) ==
    UNION {{Table(cols, [i \in 1..k |-> D[f[i]]]) : f \in NonDecreasing(k, Len(D))} :
              k \in 0..max}

MaxActivityRows == 1
MaxMinuteRows == 4
MaxSleepDayRows == 2
MaxHeartRows == 2
MaxWeightRows == 1

ActivityCols == <<"Id", "ActivityDate", "TotalSteps", "TotalDistance", "VeryActiveDistance",
                  "SedentaryActiveDistance", "VeryActiveMinutes", "Calories">>
ActivityRow(id, ts, steps, calories) ==
    [Id |-> R(id), ActivityDate |-> ts, TotalSteps |-> steps, TotalDistance |-> R(5),
     VeryActiveDistance |-> R(2), SedentaryActiveDistance |-> R(0),
     VeryActiveMinutes |-> R(20), Calories |-> calories]
ActivityDom == <<ActivityRow(1, Ts(1, 0), R(1000), R(400)),
                 ActivityRow(1, Ts(2, 0), R(1000), R(400)),
                 ActivityRow(1, Ts(1, 0), NaN, R(500)),
                 ActivityRow(1, NaT, R(1000), R(400))>>
ActivityTables == TablesOver(ActivityCols, ActivityDom, MaxActivityRows)
Activity(d) == Table(ActivityCols, <<ActivityRow(1, Ts(d, 0), R(1000), R(400))>>)

MinuteSleepCols == <<"Id", "date", "value", "logId">>
MinuteSleepRow(id, ts, value) == [Id |-> R(id), date |-> ts, value |-> R(value), logId |-> R(7)]
MinuteSleepDom == <<MinuteSleepRow(1, Ts(1, 0), 1), MinuteSleepRow(1, Ts(1, 1), 2),
                    MinuteSleepRow(1, Ts(2, 0), 3), MinuteSleepRow(1, NaT, 1),
                    MinuteSleepRow(2, Ts(1, 1), 1)>>
MinuteSleepTables == TablesOver(MinuteSleepCols, MinuteSleepDom, MaxMinuteRows)

SleepDayCols == <<"Id", "SleepDay", "TotalSleepRecords", "TotalMinutesAsleep", "TotalTimeInBed">>
SleepDayRow(id, ts, asleep, inbed) ==
    [Id |-> R(id), SleepDay |-> ts, TotalSleepRecords |-> R(1),
     TotalMinutesAsleep |-> R(asleep), TotalTimeInBed |-> R(inbed)]
SleepDayDom == <<SleepDayRow(1, Ts(1, 0), 2, 3), SleepDayRow(1, Ts(1, 0), 5, 3),
                 SleepDayRow(1, Ts(2, 0), 3, 0), SleepDayRow(1, Ts(2, 0), 0 - 1, 3)>>
SleepDayTables == TablesOver(SleepDayCols, SleepDayDom, MaxSleepDayRows)

HeartrateCols == <<"Id", "Time", "Value">>
HeartrateRow(id, ts, value) == [Id |-> R(id), Time |-> ts, Value |-> R(value)]
HeartrateDom == <<HeartrateRow(1, Ts(1, 0), 70), HeartrateRow(1, Ts(1, 1), 71),
                  HeartrateRow(1, Ts(2, 0), 300), HeartrateRow(1, Ts(2, 1), 20)>>
HeartrateTables == TablesOver(HeartrateCols, HeartrateDom, MaxHeartRows)

WeightCols == <<"Id", "Date", "WeightKg", "WeightPounds", "Fat", "BMI", "IsManualReport", "LogId">>
WeightRow(id, ts, kg, bmi) ==
    [Id |-> R(id), Date |-> ts, WeightKg |-> R(kg), WeightPounds |-> R(2 * kg), Fat |-> NaN,
     BMI |-> R(bmi), IsManualReport |-> R(1), LogId |-> R(9)]
WeightDom == <<WeightRow(1, Ts(1, 0), 70, 22), WeightRow(1, Ts(1, 1), 73, 23),
               WeightRow(1, Ts(2, 0), 0 - 2, 22)>>
WeightTables == TablesOver(WeightCols, WeightDom, MaxWeightRows)

Empty(cols) == Table(cols, <<>>)
File(folder, stem, table) == [folder |-> folder, stem |-> stem, table |-> table]

\* the two export folders, in the order the listing returns their files
Listing(act1, sleep1, hr1, w1, act2, sleep2, hr2, w2) ==
    <<File(FOLDER1, "dailyActivity_merged", act1),
      File(FOLDER1, "heartrate_seconds_merged", hr1),
      File(FOLDER1, "minuteSleep_merged", sleep1),
      File(FOLDER1, "weightLogInfo_merged", w1),
      File(FOLDER1, "dailySteps_merged", act1),
      File(FOLDER1, "dailyActivity_backup", act1),
      File(FOLDER2, "heartrate_seconds_merged", hr2),
      File(FOLDER2, "minuteSleep_merged", Empty(MinuteSleepCols)),
      File(FOLDER2, "sleepDay_merged", sleep2),
      File(FOLDER2, "weightLogInfo_merged", w2)>>
    \o act2

\* window 4_12 with and without its activity file
ActivityFile(t) == <<File(FOLDER2, "dailyActivity_merged", t)>>

\* the tables of the source kinds that a listing does not vary
Sleep1 == Table(MinuteSleepCols, <<MinuteSleepDom[1]>>)
Sleep2 == Empty(SleepDayCols)
Heart1 == Table(HeartrateCols, <<HeartrateDom[1]>>)
Heart2 == Empty(HeartrateCols)
Weight1 == Table(WeightCols, <<WeightDom[1]>>)
Weight2 == Empty(WeightCols)

\* files with a single column, with and without a row
NarrowTables == {Table(<<"Id">>, <<>>), Table(<<"Id">>, <<[Id |-> R(1)]>>)}

\* the listing with the table of one of its files replaced
ReplaceTable(listing, folder, stem, t) ==
    [i \in 1..Len(listing) |->
        IF listing[i].folder = folder /\ listing[i].stem = stem
        THEN File(folder, stem, t) ELSE listing[i]]

\* names the folder of window 3_12 may have: each holds the window's dates
Window1Folders == {FOLDER1, FOLDER1 \o " (copy)", "3.12.16-4.11.16"}

\* the listing with one of its folders renamed
RenameFolder(listing, folder, name) ==
    [i \in 1..Len(listing) |->
        IF listing[i].folder = folder
        THEN File(name, listing[i].stem, listing[i].table) ELSE listing[i]]

\* the files the reducers read
ReducedFiles == {<<FOLDER1, "minuteSleep_merged">>,
                 <<FOLDER1, "heartrate_seconds_merged">>,
                 <<FOLDER2, "heartrate_seconds_merged">>,
                 <<FOLDER1, "weightLogInfo_merged">>,
                 <<FOLDER2, "weightLogInfo_merged">>}

\* the listing of the default tables, from which one file at a time is missing
DefaultListing ==
    Listing(Activity(1), Sleep1, Heart1, Weight1, ActivityFile(Activity(2)),
            Sleep2, Heart2, Weight2)

\* the listings the pipeline is run on: one source kind varies at a time
Listings ==
    {Listing(a1, Sleep1, Heart1, Weight1, a2, Sleep2, Heart2, Weight2) :
        a1 \in ActivityTables, a2 \in {ActivityFile(t) : t \in ActivityTables} \cup {<<>>}}
    \cup
    {Listing(Activity(1), s1, Heart1, Weight1, ActivityFile(Activity(2)), s2, Heart2, Weight2) :
        s1 \in {Sleep1, Empty(MinuteSleepCols)}, s2 \in SleepDayTables}
    \cup
    {Listing(Activity(1), Sleep1, h1, Weight1, ActivityFile(Activity(2)), Sleep2, h2, Weight2) :
        h1 \in HeartrateTables, h2 \in HeartrateTables}
    \cup
    {Listing(Activity(1), Sleep1, Heart1, w1, ActivityFile(Activity(2)), Sleep2, Heart2, w2) :
        w1 \in WeightTables, w2 \in WeightTables}
    \cup
    {RemoveAt(DefaultListing, i) : i \in 1..Len(DefaultListing)}
    \cup
    {RenameFolder(DefaultListing, FOLDER1, name) : name \in Window1Folders}
    \cup
    {ReplaceTable(DefaultListing, f[1], f[2], n) : f \in ReducedFiles, n \in NarrowTables}
    \cup
    {ReplaceTable(Listing(Activity(1), s1, Heart1, Weight1, ActivityFile(Activity(2)),
                          Sleep2, Heart2, Weight2),
                  FOLDER2, "minuteSleep_merged", n) :
        s1 \in MinuteSleepTables, n \in NarrowTables \cup {Empty(MinuteSleepCols)}}

\* the unified table as merge_all_data lays it out
UnifiedCols == <<"Id", "Date", "TotalSteps", "TotalDistance", "VeryActiveDistance",
                 "SedentaryActiveDistance", "VeryActiveMinutes", "Calories",
                 "TotalMinutesAsleep", "TotalTimeInBed", "AvgWeightKg", "AvgWeightPounds",
                 "AvgBMI", "AvgHeartRate">>
UnifiedRow(id, date, steps, calories, asleep, inbed, kg, bmi, hr) ==
    [Id |-> R(id), Date |-> date, TotalSteps |-> steps, TotalDistance |-> R(5),
     VeryActiveDistance |-> R(2), SedentaryActiveDistance |-> R(0),
     VeryActiveMinutes |-> R(20), Calories |-> calories, TotalMinutesAsleep |-> asleep,
     TotalTimeInBed |-> inbed, AvgWeightKg |-> kg, AvgWeightPounds |-> Mul(kg, R(2)),
     AvgBMI |-> bmi, AvgHeartRate |-> hr]

\* rows that differ from a plain activity-only row in one group of columns
PlainRow(id, hr) == UnifiedRow(id, 1, R(10), R(10), NaN, NaN, NaN, NaN, hr)
StepsRow(steps, calories) == UnifiedRow(1, 1, steps, calories, NaN, NaN, NaN, NaN, NaN)
SleepRow(asleep, inbed) == UnifiedRow(1, 1, R(10), R(10), R(asleep), R(inbed), NaN, NaN, NaN)
WeightedRow(kg, bmi) == UnifiedRow(1, 1, R(10), R(10), NaN, NaN, kg, bmi, NaN)

UnifiedDom ==
    <<PlainRow(1, NaN), PlainRow(1, R(70)), PlainRow(1, R(300)), PlainRow(1, Rat(2111, 30)),
      PlainRow(2, NaN), PlainRow(2, Rat(249996, 1000)), PlainRow(2, R(20)),
      StepsRow(NaN, R(10)), StepsRow(R(0 - 5), R(10)), StepsRow(R(10), NaN),
      SleepRow(2, 3), SleepRow(5, 3), SleepRow(0 - 1, 3), SleepRow(2, 0),
      WeightedRow(R(70), R(22)), WeightedRow(R(0 - 2), R(22)), WeightedRow(NaN, Rat(45, 2)),
      UnifiedRow(1, 1, NaN, R(10), NaN, NaN, R(90), R(30), R(100))>>

MaxCleanRows == 3
UnifiedTables == TablesOver(UnifiedCols, UnifiedDom, MaxCleanRows)

\* tables of one user's distinct days whose TotalSteps and Calories vary
OutlierDom == <<StepsRow(R(10), R(10)), StepsRow(R(10), R(20)),
                StepsRow(R(100), R(10)), StepsRow(R(100), R(20))>>
MaxOutlierRows == 5
OnDay(row, day) == [row EXCEPT !["Date"] = day]
OutlierTables ==
    UNION {{Table(UnifiedCols, [i \in 1..k |-> OnDay(OutlierDom[f[i]], i)]) :
               f \in NonDecreasing(k, Len(OutlierDom))} : k \in 0..MaxOutlierRows}

\* the scenarios of the specification's testable properties
StepsScenario ==
    Table(UnifiedCols,
          [i \in 1..5 |-> OnDay(StepsRow(R(<<1000, 2000, 3000, 4000, 100000>>[i]), R(400)), i)])
EssentialScenario ==
    Table(UnifiedCols, <<OnDay(StepsRow(R(12000), R(400)), 1), OnDay(StepsRow(NaN, R(500)), 2)>>)

\* rows whose ratio denominators are negative, zero, null and positive
RatioRow(asleep, inbed, vad, td) ==
    [UnifiedRow(1, 1, R(10), R(10), asleep, inbed, NaN, NaN, NaN)
        EXCEPT !["VeryActiveDistance"] = vad, !["TotalDistance"] = td]
RatioDom == <<RatioRow(R(2), R(0 - 3), R(0), R(0)), RatioRow(R(1), R(3), R(1), R(4)),
              RatioRow(R(2), R(0), R(1), R(0 - 4)), RatioRow(R(2), NaN, R(1), NaN),
              RatioRow(NaN, R(3), NaN, R(4))>>
MaxRatioRows == 2
RatioTables == TablesOver(UnifiedCols, RatioDom, MaxRatioRows)

CleanInputs ==
    UnifiedTables \cup OutlierTables \cup RatioTables \cup {StepsScenario, EssentialScenario}

\* ------------------------------------------------------------------------
\* State and operations
\* ------------------------------------------------------------------------

VARIABLES
    files,  \* the listing of the raw-data directory
    dfs,    \* the dictionary of loaded tables
    df,     \* the unified table (merged_df, then the table clean_data works on)
    pc,     \* the position of handle_data_processing
    input,  \* the table clean_data was called with
    prev,   \* the table the last stage of clean_data was called with
    run     \* how many times clean_data was called

vars == <<files, dfs, df, pc, input, prev, run>>

NoTable == Table(<<>>, <<>>)

Init ==
    /\ files \in Listings
    /\ dfs = <<>>
    /\ df = NoTable
    /\ pc = "start"
    /\ input = NoTable
    /\ prev = NoTable
    /\ run = 0

LoadData ==
    /\ pc = "start"
    /\ dfs' = load_data(files)
    /\ pc' = "loaded"
    /\ UNCHANGED <<files, df, input, prev, run>>

StandardizeDateFormat ==
    /\ pc = "loaded"
    /\ dfs' = standardize_date_format(dfs)
    /\ pc' = "standardized"
    /\ UNCHANGED <<files, df, input, prev, run>>

ConvertTimeDataToDaily ==
    /\ pc = "standardized"
    /\ pc' = ConvertOutcome(dfs)
    /\ dfs' = convert_time_data_to_daily(dfs)
    /\ UNCHANGED <<files, df, input, prev, run>>

\* merge_all_data, then the call of clean_data; a missing table raises KeyError
\* and the run ends without a table
MergeAllData ==
    /\ pc = "daily"
    /\ pc' = MergeOutcome(dfs)
    /\ IF MergeKeys \subseteq DOMAIN dfs
       THEN /\ df' = merge_all_data(dfs)
            /\ input' = merge_all_data(dfs)
            /\ run' = 1
       ELSE UNCHANGED <<df, input, run>>
    /\ UNCHANGED <<files, dfs, prev>>

\* one stage of clean_data
Stage(from, to, result) ==
    /\ pc = from
    /\ prev' = df
    /\ df' = result
    /\ pc' = to
    /\ UNCHANGED <<files, dfs, input, run>>

HandleDuplicates == Stage("merged", "deduplicated", handle_duplicates(df))
\* handle_missing_values returns, or its division raises: only on the first
\* call, since the table clean_data returns has typed columns. The frame is
\* changed in place, so it has its HasSleepData column when the division
\* raises
HandleMissingValues ==
    \/ Stage("deduplicated", "completed", handle_missing_values(df))
    \/ /\ run = 1
       /\ MayRaiseZeroDivision(df)
       /\ Stage("deduplicated", "ZeroDivisionError", handle_missing_values(df))
FlagWeightTracking == Stage("completed", "flagged", flag_weight_tracking(df))
HandleOutliers == Stage("flagged", "filtered", handle_outliers(df))
AddDerivedMetrics == Stage("filtered", "derived", add_derived_metrics(df))
DropUnnecessaryColumns == Stage("derived", "pruned", drop_unnecessary_columns(df))
HandleNegativeValues == Stage("pruned", "scrubbed", handle_negative_values(df))
RoundDecimalValues == Stage("scrubbed", "cleaned", round_decimal_values(df))

CleanData ==
    \/ HandleDuplicates
    \/ HandleMissingValues
    \/ FlagWeightTracking
    \/ HandleOutliers
    \/ AddDerivedMetrics
    \/ DropUnnecessaryColumns
    \/ HandleNegativeValues
    \/ RoundDecimalValues

\* analyze_data on the cleaned table: of its calls only
\* segment_users_by_activity changes the frame
SegmentUsersByActivity ==
    /\ pc = "cleaned"
    /\ df' = segment_users_by_activity(df)
    /\ pc' = "segmented"
    /\ UNCHANGED <<files, dfs, input, prev, run>>

Next ==
    \/ LoadData
    \/ StandardizeDateFormat
    \/ ConvertTimeDataToDaily
    \/ MergeAllData
    \/ CleanData
    \/ SegmentUsersByActivity

Spec == Init /\ [][Next]_vars

\* clean_data on its own: called on a unified table, then on its own result
InitClean ==
    /\ files = <<>>
    /\ dfs = <<>>
    /\ df \in CleanInputs
    /\ input = df
    /\ pc = "merged"
    /\ prev = NoTable
    /\ run = 1

CleanAgain ==
    /\ pc = "cleaned"
    /\ run = 1
    /\ input' = df
    /\ run' = 2
    /\ pc' = "merged"
    /\ UNCHANGED <<files, dfs, df, prev>>

NextClean == CleanData \/ CleanAgain \/ SegmentUsersByActivity

SpecClean == InitClean /\ [][NextClean]_vars
\* ------------------------------------------------------------------------
\* Properties
\* ------------------------------------------------------------------------

Rows(t) == 1..Len(t.rows)
KeyOf(r) == <<r["Id"], r["Date"]>>
Keys(t) == {KeyOf(t.rows[i]) : i \in Rows(t)}
InRange(x, lo, hi) == Ge(x, R(lo)) /\ Le(x, R(hi))

\* C1: merge completeness. The unified table merge_all_data returns has as
\* many rows as the concatenation of the two windows' activity tables.
C1_MergeCompleteness ==
    pc = "merged" => Len(df.rows) = Len(merge_activity_data(dfs).rows)

\* the rows of the table clean_data was called with that are complete in the
\* essential columns and reach the heart-rate filter (no Tukey bound drops them)
ReachHeartRateFilter ==
    TukeyLoop(flag_weight_tracking(handle_missing_values(handle_duplicates(input))),
              outlier_columns)

\* C2: the activity table is the base relation. Every (UserId, Date) of the
\* returned table is the key of an activity row, and an activity row is only
\* dropped for a value it has (a null essential column, a Tukey outlier, a
\* heart rate of its own outside [30, 250]), never for a metric it misses.
C2_ActivityIsBase ==
    (pc = "cleaned" /\ run = 1) =>
        /\ Keys(df) \subseteq Keys(merge_activity_data(dfs))
        /\ \A i \in Rows(input) :
              (/\ KeyOf(input.rows[i]) \in Keys(ReachHeartRateFilter)
               /\ IsNa(input.rows[i]["AvgHeartRate"]))
              => KeyOf(input.rows[i]) \in Keys(df)

\* C3: idempotence. clean_data called on its own result returns it unchanged.
C3_Idempotent ==
    (pc = "cleaned" /\ run = 2) => df = input

\* C4: essential completeness. No row with a null TotalSteps or Calories is
\* left by the completeness stage, and none is in the table clean_data returns.
C4_EssentialComplete ==
    pc \in {"completed", "cleaned"} =>
        \A i \in Rows(df) : NotNa(df.rows[i]["TotalSteps"]) /\ NotNa(df.rows[i]["Calories"])

\* the row r of the table entering handle_outliers with its heart rate
\* invalidated: AvgHeartRate null and HasHeartRateData 0
Invalidated(r) ==
    [k \in DOMAIN r \cup {"HasHeartRateData"} |->
        IF k = "AvgHeartRate" THEN NaN
        ELSE IF k = "HasHeartRateData" THEN R(0)
        ELSE r[k]]

\* C5: a row whose AvgHeartRate is outside [30, 250] is kept by outlier
\* rejection, with AvgHeartRate null and HasHeartRateData 0.
C5_HeartRateNulledNotDropped ==
    pc = "filtered" =>
        LET reach == TukeyLoop(prev, outlier_columns)
        IN  \A i \in Rows(reach) :
                (/\ NotNa(reach.rows[i]["AvgHeartRate"])
                 /\ ~InRange(reach.rows[i]["AvgHeartRate"], HeartRateMin, HeartRateMax))
                => \E j \in Rows(df) : df.rows[j] = Invalidated(reach.rows[i])

\* C6: in the table clean_data returns, AvgHeartRate is null or in [30, 250].
C6_HeartRateInRange ==
    pc = "cleaned" =>
        \A i \in Rows(df) :
            \/ IsNa(df.rows[i]["AvgHeartRate"])
            \/ InRange(df.rows[i]["AvgHeartRate"], HeartRateMin, HeartRateMax)

\* C6 witness: a user's rows with no heart rate, one outside the range and a
\* fractional one were cleaned: the imputed and rounded mean 185.18 is kept
C6_Witness ==
    /\ pc = "cleaned"
    /\ run = 1
    /\ \E i \in Rows(input) : input.rows[i]["AvgHeartRate"] = R(300)
    /\ \E i \in Rows(input) : IsNa(input.rows[i]["AvgHeartRate"])
    /\ \E j \in Rows(df) : df.rows[j]["AvgHeartRate"] = Rat(18518, 100)
    /\ Len(df.rows) < Len(input.rows)

\* C7: in the table the pipeline returns, SleepEfficiency is null or in [0, 1].
C7_SleepEfficiencyInUnit ==
    pc = "cleaned" =>
        \A i \in Rows(df) :
            \/ IsNa(df.rows[i]["SleepEfficiency"])
            \/ InRange(df.rows[i]["SleepEfficiency"], 0, 1)

\* a row is within the Tukey bounds of every outlier column, the bounds taken
\* over all the rows of t
WithinAllBounds(t, r) ==
    \A c \in Range(outlier_columns) :
        IsNa(r[c]) \/ (Ge(r[c], LowerBound(t, c)) /\ Le(r[c], UpperBound(t, c)))

\* C8: outlier rejection keeps exactly the rows that are, in each of the four
\* columns, null or within the Tukey bounds computed over all the rows that
\* enter the stage (then the heart-rate filter and flag follow).
C8_BoundsOverWholePopulation ==
    pc = "filtered" =>
        LET within(r) == WithinAllBounds(prev, r)
            hr(r) == Flag(NotNa(r["AvgHeartRate"]))
        IN  df = SetColumn(HeartRateFilter(FilterRows(prev, within)), "HasHeartRateData", hr)

\* C9: the negative-value scrub nulls every numeric cell below zero, and the
\* table clean_data returns has no negative continuous cell: rounding leaves
\* the nulls null and makes nothing negative.
C9_NoNegativeCell ==
    /\ pc = "scrubbed" =>
          \A i \in Rows(prev) : \A k \in NumericCols(prev) :
              Lt(prev.rows[i][k], R(0)) => IsNa(df.rows[i][k])
    /\ pc = "cleaned" =>
          \A i \in Rows(df) : \A k \in DecimalCols(df) :
              /\ ~Lt(df.rows[i][k], R(0))
              /\ IsNa(prev.rows[i][k]) => IsNa(df.rows[i][k])

\* C9 witness: the scrub ran on a table with a negative cell
C9_Witness ==
    /\ pc = "scrubbed"
    /\ \E i \in Rows(prev) : \E k \in DecimalCols(prev) :
          Lt(prev.rows[i][k], R(0)) /\ IsNa(df.rows[i][k])

\* the listing has the minute-level sleep file of window 3_12
MinuteSleepListed == Key("minuteSleep_merged", "3_12") \in DOMAIN load_data(files)
\* the minute-level sleep table of window 3_12 as it was loaded
MinuteSleepLoaded == load_data(files)[Key("minuteSleep_merged", "3_12")]
\* the (user, date) of a loaded minute row
MinutePair(r) == <<r["Id"], DateOnly(r["date"])>>
\* the loaded minute rows of one (user, date), and those of them asleep
MinutesOf(p) == {i \in Rows(MinuteSleepLoaded) : MinutePair(MinuteSleepLoaded.rows[i]) = p}
AsleepOf(p) == {i \in MinutesOf(p) : MinuteSleepLoaded.rows[i]["value"] = R(AsleepValue)}
SleepReduced == dfs[Key("sleepDay_merged", "3_12")]

\* C10: sleep reduction. Every (user, date) with a minute row in the file of
\* window 3_12 has a row in the reduced table of that window whose
\* TotalTimeInBed is the number of its minute rows and whose
\* TotalMinutesAsleep is the number of them with the asleep code (0 when
\* there is none), so TotalTimeInBed >= TotalMinutesAsleep;
\* a row with two thirds of its minutes asleep ends with SleepEfficiency 0.67.
C10_SleepReduction ==
    /\ (pc = "daily" /\ MinuteSleepListed) =>
          /\ \A p \in {MinutePair(MinuteSleepLoaded.rows[i]) : i \in Rows(MinuteSleepLoaded)} :
                p[2] # NaT =>
                    \E j \in Rows(SleepReduced) :
                        /\ KeyOf(SleepReduced.rows[j]) = p
                        /\ SleepReduced.rows[j]["TotalTimeInBed"] = R(Cardinality(MinutesOf(p)))
                        /\ SleepReduced.rows[j]["TotalMinutesAsleep"] = R(Cardinality(AsleepOf(p)))
          /\ \A j \in Rows(SleepReduced) :
                Ge(SleepReduced.rows[j]["TotalTimeInBed"], SleepReduced.rows[j]["TotalMinutesAsleep"])
    /\ pc = "cleaned" =>
          \A i \in Rows(df) :
              (/\ Gt(df.rows[i]["TotalTimeInBed"], R(0))
               /\ Mul(R(3), df.rows[i]["TotalMinutesAsleep"]) = Mul(R(2), df.rows[i]["TotalTimeInBed"]))
              => df.rows[i]["SleepEfficiency"] = Rat(67, 100)

\* C10 witness: the reduced table has a day of three minutes, two asleep, and
\* a day with minutes in bed and none asleep
C10_Witness ==
    /\ pc = "daily"
    /\ MinuteSleepListed
    /\ \E j \in Rows(SleepReduced) :
          /\ SleepReduced.rows[j]["TotalTimeInBed"] = R(3)
          /\ SleepReduced.rows[j]["TotalMinutesAsleep"] = R(2)
    /\ \E j \in Rows(SleepReduced) :
          /\ Ge(SleepReduced.rows[j]["TotalTimeInBed"], R(1))
          /\ SleepReduced.rows[j]["TotalMinutesAsleep"] = R(0)

\* the source kinds the reducer leaves in the dictionary besides activity
ReducedStems == {"sleepDay_merged", "heartrateDay_merged", "weightLogInfo_merged"}

\* no two rows of t have the same (UserId, Date)
UniqueKeys(t) ==
    \A i, j \in Rows(t) : KeyOf(t.rows[i]) = KeyOf(t.rows[j]) => i = j

\* C11: after convert_time_data_to_daily, every sleep, heart-rate and weight
\* table of either window holds at most one row per (UserId, Date).
C11_UniquePerReducedKind ==
    pc = "daily" =>
        \A k \in DOMAIN dfs : k[1] \in ReducedStems => UniqueKeys(dfs[k])

\* a table the merge looks up is missing when merge_all_data is called
MissingAtMerge == pc = "daily" /\ ~(MergeKeys \subseteq DOMAIN dfs)

\* C12 as stated: when a table the merge needs is missing, the run ends in
\* an error classified IngestError and no table is produced.
C12_FatalIngestError ==
    [][MissingAtMerge => (pc' = "IngestError" /\ df' = NoTable)]_vars

\* C12 amended: when a table the merge needs is missing, the run ends in the
\* KeyError of the failed lookup; clean_data is never called and no table,
\* not even a partial one, is produced: the run takes no step after an error.
C12_FatalKeyError ==
    [][/\ MissingAtMerge =>
              (pc' = "KeyError" /\ df' = NoTable /\ input' = NoTable /\ run' = 0)
       /\ pc \notin {"KeyError", "IndexError", "ZeroDivisionError"}]_vars

\* C12 witness: the run ended in KeyError for want of the activity table of
\* window 4_12, while the activity table of window 3_12 had a row
C12_Witness ==
    /\ pc = "KeyError"
    /\ Key("dailyActivity_merged", "4_12") \notin DOMAIN dfs
    /\ Key("dailyActivity_merged", "3_12") \in DOMAIN dfs
    /\ dfs[Key("dailyActivity_merged", "3_12")].rows # <<>>
    /\ df = NoTable

\* in every row of t the flag is 1 when the metric is not null and 0 when it is
FlagMatches(t, flag, metric) ==
    \A i \in Rows(t) : t.rows[i][flag] = Flag(NotNa(t.rows[i][metric]))

\* C13: in the table each flag-deriving stage returns, the flag it derived is
\* 1 exactly in the rows whose metric is not null: HasSleepData after
\* handle_missing_values, HasWeightData and HasBMIData after
\* flag_weight_tracking, HasHeartRateData after handle_outliers.
C13_FlagsAtComputation ==
    /\ pc = "completed" => FlagMatches(df, "HasSleepData", "TotalMinutesAsleep")
    /\ pc = "flagged" =>
          /\ FlagMatches(df, "HasWeightData", "AvgWeightKg")
          /\ FlagMatches(df, "HasBMIData", "AvgBMI")
    /\ pc = "filtered" => FlagMatches(df, "HasHeartRateData", "AvgHeartRate")

\* C13 witness: the four flags were derived on a table with a sleep row, a
\* row with a BMI and no weight, a row with and a row without heart rate
C13_Witness ==
    /\ pc = "filtered"
    /\ \E i \in Rows(df) : df.rows[i]["HasSleepData"] = R(1)
    /\ \E i \in Rows(df) :
          df.rows[i]["HasWeightData"] = R(0) /\ df.rows[i]["HasBMIData"] = R(1)
    /\ \E i \in Rows(df) : df.rows[i]["HasHeartRateData"] = R(1)
    /\ \E i \in Rows(df) : df.rows[i]["HasHeartRateData"] = R(0)

imputed_columns == {"AvgWeightKg", "AvgBMI", "AvgHeartRate"}

\* the rows of the table entering handle_missing_values that survive its dropna
Surviving ==
    LET essential(r) == NotNa(r["TotalSteps"]) /\ NotNa(r["Calories"])
    IN  SelectSeq(prev.rows, essential)

\* the surviving rows of the user of row i that have a value in column c
OwnValues(i, c) ==
    {j \in 1..Len(Surviving) :
        Surviving[j]["Id"] = Surviving[i]["Id"] /\ NotNa(Surviving[j][c])}

\* the sum of column c over the surviving rows J
RECURSIVE SumOver(_, _)
SumOver(J, c) ==
    IF J = {} THEN R(0)
    ELSE LET j == CHOOSE x \in J : TRUE
         IN  Add(Surviving[j][c], SumOver(J \ {j}, c))

\* C14: per-user imputation. After handle_missing_values a cell of AvgWeightKg,
\* AvgBMI or AvgHeartRate that had a value is unchanged; a cell that was null
\* holds the mean of the values of the same user over the surviving rows, and
\* is null when that user has none.
C14_PerUserImputation ==
    pc = "completed" =>
        /\ Len(df.rows) = Len(Surviving)
        /\ \A i \in Rows(df) : \A c \in imputed_columns :
              IF NotNa(Surviving[i][c]) THEN df.rows[i][c] = Surviving[i][c]
              ELSE IF OwnValues(i, c) = {} THEN IsNa(df.rows[i][c])
              ELSE Mul(df.rows[i][c], R(Cardinality(OwnValues(i, c)))) = SumOver(OwnValues(i, c), c)

\* C14 witness: a heart-rate cell that was null holds the value of the one
\* other surviving row of its user, while a row of that user dropped for a
\* null TotalSteps had a different value
C14_Witness ==
    /\ pc = "completed"
    /\ \E i \in Rows(df) : \E j \in Rows(df) : \E k \in Rows(prev) :
          /\ IsNa(Surviving[i]["AvgHeartRate"])
          /\ OwnValues(i, "AvgHeartRate") = {j}
          /\ df.rows[i]["AvgHeartRate"] = Surviving[j]["AvgHeartRate"]
          /\ prev.rows[k]["Id"] = df.rows[i]["Id"]
          /\ IsNa(prev.rows[k]["TotalSteps"])
          /\ NotNa(prev.rows[k]["AvgHeartRate"])
          /\ prev.rows[k]["AvgHeartRate"] # df.rows[i]["AvgHeartRate"]

\* the file is stored in the dictionary under its source kind and the window
\* of its parent folder
StoredUnderKey(f) ==
    \E k \in DOMAIN dfs :
        /\ k[1] = f.stem
        /\ f.folder \in Window1Folders => k[2] = "3_12"
        /\ f.folder = FOLDER2 => k[2] = "4_12"
        /\ dfs[k] = f.table

\* C15: the allow-list has five names and shares none with the deny-list; a
\* listed file is loaded exactly when its name is on the allow-list, under the
\* key made of its source kind and its folder's window; a file on neither
\* list is neither kept nor listed for removal; nothing else is loaded.
C15_Classification ==
    /\ Cardinality(KEEP_FILES) = 5
    /\ KEEP_FILES \cap REMOVE_FILES = {}
    /\ pc = "loaded" =>
          /\ \A i \in 1..Len(files) :
                /\ files[i].stem \in KEEP_FILES <=> StoredUnderKey(files[i])
                /\ files[i].stem \notin KEEP_FILES =>
                      \A k \in DOMAIN dfs : k[1] # files[i].stem
                /\ files[i].stem \notin KEEP_FILES \cup REMOVE_FILES =>
                      /\ files[i] \notin Range(files_to_keep(files))
                      /\ files[i] \notin Range(files_to_remove(files))
          /\ \A k \in DOMAIN dfs :
                \E i \in 1..Len(files) : files[i].stem = k[1] /\ StoredUnderKey(files[i])
          /\ Cardinality(DOMAIN dfs) = Len(files_to_keep(files))

\* C15 witness: a listing with allowed files in both folders, the first one
\* under another name than FOLDER1, a deny-listed file and a file on neither
\* list was loaded
C15_Witness ==
    /\ pc = "loaded"
    /\ \E i \in 1..Len(files) : files[i].stem \in REMOVE_FILES
    /\ \E i \in 1..Len(files) : files[i].stem \notin KEEP_FILES \cup REMOVE_FILES
    /\ \E i \in 1..Len(files) : \E j \in 1..Len(files) :
          /\ files[i].stem = files[j].stem
          /\ files[i].folder \in Window1Folders \ {FOLDER1}
          /\ files[j].folder = FOLDER2
          /\ Key(files[i].stem, "3_12") \in DOMAIN dfs
          /\ Key(files[j].stem, "4_12") \in DOMAIN dfs
          /\ dfs[Key(files[i].stem, "3_12")] # dfs[Key(files[j].stem, "4_12")]

\* the dictionary as load_data returned it
Loaded == load_data(files)

\* t1 is t0 with its second column renamed to Date and holding, for every
\* row, the day of the raw timestamp, or null when the raw value does not
\* parse; every other column and cell is as it was
DateNormalized(t0, t1) ==
    LET date_col == t0.cols[2]
    IN  /\ Len(t1.cols) = Len(t0.cols)
        /\ \A c \in 1..Len(t0.cols) : t1.cols[c] = IF c = 2 THEN "Date" ELSE t0.cols[c]
        /\ Len(t1.rows) = Len(t0.rows)
        /\ \A i \in Rows(t0) :
              /\ DOMAIN t1.rows[i] = (DOMAIN t0.rows[i] \ {date_col}) \cup {"Date"}
              /\ \A k \in DOMAIN t0.rows[i] \ {date_col} : t1.rows[i][k] = t0.rows[i][k]
              /\ IF t0.rows[i][date_col] = NaT THEN t1.rows[i]["Date"] = NaT
                 ELSE /\ t1.rows[i]["Date"] * TicksPerDay <= t0.rows[i][date_col]
                      /\ t0.rows[i][date_col] < (t1.rows[i]["Date"] + 1) * TicksPerDay

\* C16: standardize_date_format returns, for every table and without raising,
\* the table date-normalized when it has at least two columns and the table
\* unchanged when it has fewer.
C16_DateNormalization ==
    pc = "standardized" =>
        /\ DOMAIN dfs = DOMAIN Loaded
        /\ \A k \in DOMAIN dfs :
              IF Len(Loaded[k].cols) >= 2 THEN DateNormalized(Loaded[k], dfs[k])
              ELSE dfs[k] = Loaded[k]

\* C16 witness: the dates were normalized in a dictionary with a one-column
\* table that has a row, and a table with an unparseable value and a
\* timestamp within a day
C16_Witness ==
    /\ pc = "standardized"
    /\ \E k \in DOMAIN dfs : Len(dfs[k].cols) = 1 /\ dfs[k].rows # <<>>
    /\ \E k \in DOMAIN dfs :
          /\ Len(Loaded[k].cols) >= 2
          /\ \E i \in Rows(dfs[k]) : dfs[k].rows[i]["Date"] = NaT
          /\ \E i \in Rows(dfs[k]) :
                /\ dfs[k].rows[i]["Date"] # NaT
                /\ Loaded[k].rows[i][Loaded[k].cols[2]] # dfs[k].rows[i]["Date"] * TicksPerDay

\* q is num / den when den is greater than zero, and null otherwise
RatioIs(q, num, den) ==
    IF NotNa(den) /\ den.n > 0
    THEN IF IsNa(num) THEN IsNa(q)
         ELSE NotNa(q) /\ q.n * num.d * den.n = num.n * den.d * q.d
    ELSE IsNa(q)

\* C17: add_derived_metrics keeps every row and sets SleepEfficiency to
\* TotalMinutesAsleep / TotalTimeInBed where TotalTimeInBed > 0 and
\* VeryActiveRatio to VeryActiveDistance / TotalDistance where
\* TotalDistance > 0, and to null where the denominator is zero, negative or
\* null.
C17_GuardedRatios ==
    pc = "derived" =>
        /\ Len(df.rows) = Len(prev.rows)
        /\ \A i \in Rows(df) :
              /\ RatioIs(df.rows[i]["SleepEfficiency"],
                         prev.rows[i]["TotalMinutesAsleep"], prev.rows[i]["TotalTimeInBed"])
              /\ RatioIs(df.rows[i]["VeryActiveRatio"],
                         prev.rows[i]["VeryActiveDistance"], prev.rows[i]["TotalDistance"])

\* C17 witness: the ratios were derived on a table with a negative
\* TotalTimeInBed, a zero TotalDistance and a row of 1/3 and 1/4
C17_Witness ==
    /\ pc = "derived"
    /\ \E i \in Rows(df) :
          /\ Lt(df.rows[i]["TotalTimeInBed"], R(0))
          /\ IsNa(df.rows[i]["SleepEfficiency"])
          /\ df.rows[i]["TotalDistance"] = R(0)
          /\ IsNa(df.rows[i]["VeryActiveRatio"])
    /\ \E i \in Rows(df) :
          /\ df.rows[i]["SleepEfficiency"] = Rat(1, 3)
          /\ df.rows[i]["VeryActiveRatio"] = Rat(1, 4)

\* C18: in the table clean_data returns, every tracking flag is 1 exactly in
\* the rows whose metric is not null.
C18_FlagsInFinalTable ==
    pc = "cleaned" =>
        /\ FlagMatches(df, "HasSleepData", "TotalMinutesAsleep")
        /\ FlagMatches(df, "HasWeightData", "AvgWeightKg")
        /\ FlagMatches(df, "HasBMIData", "AvgBMI")
        /\ FlagMatches(df, "HasHeartRateData", "AvgHeartRate")
====
